---- MODULE Spec2Model ----
(***************************************************************************)
(* Readiness gating and wake coordination of the Ollama proxy             *)
(* (src/ollama-health-checker.js).  Each process is one inbound request   *)
(* handled on the single-threaded event loop: an action is the code that  *)
(* runs between two suspension points (await of a probe, of the wake      *)
(* call, of the delay, of the one second polling timer).                  *)
(***************************************************************************)
EXTENDS Integers, Sequences, FiniteSets, TLC

\* ---------------------------------------------------------------- bounds
NumProcs == 2

Procs == 1..NumProcs

\* ------------------------------------------------------- program constants
StatusOk == 200

WakeFailedMsg == "Nie udalo sie uruchomic komputera"

StillUnhealthyMsg == "Ollama nadal nie jest dostepna po uruchomieniu komputera"

UnknownModel == "unknown"

\* ------------------------------------------------- outcomes of network I/O
\* A network call ends with a status code or with a transport error code.
Http(n) == [status |-> n, code |-> "none"]

Err(c) == [status |-> 0, code |-> c]

\* What the GET /api/tags of the probe can end with.
ProbeOutcomes(up) ==
    IF up THEN {Http(200), Http(500)}
          ELSE {Err("ECONNREFUSED"), Err("ECONNRESET"), Err("ETIMEDOUT"),
                Err("CERT_HAS_EXPIRED")}

\* What the POST to the wake endpoint can end with.
WakeOutcomes == {Http(200), Http(204), Http(401), Err("ECONNREFUSED")}

checkOllamaHealth_Any2xx(r) == r.code = "none" /\ r.status \in 200..299

\* checkOllamaHealth: validateStatus accepts only 200, everything else
\* throws inside axios and is turned into false by the catch block.
checkOllamaHealth(r) == r.code = "none" /\ r.status = StatusOk

wakeComputer_Any2xx(w) == w.code = "none" /\ w.status \in 200..299

\* wakeComputer: true only for status 200; other 2xx take the else branch,
\* non-2xx and transport errors are caught; all of them return false.
wakeComputer(w) == w.code = "none" /\ w.status = StatusOk

\* ----------------------------------------------------------------- requests
Paths == {"/api/generate", "/api/chat", "/api/tags"}

NoBody == [present |-> FALSE, stream |-> FALSE, model |-> ""]

Bodies == {NoBody} \cup [present : {TRUE}, stream : BOOLEAN, model : {"", "llama2"}]

Requests == [path : Paths, body : Bodies]

NoRequest == [path |-> "", body |-> NoBody]

\* The requests the concurrent specification sends through chatMiddleware.
GateRequests ==
    {[path |-> "/api/chat", body |-> [present |-> TRUE, stream |-> TRUE, model |-> "llama2"]],
     [path |-> "/api/tags", body |-> [present |-> TRUE, stream |-> FALSE, model |-> ""]]}

NoResponse == [status |-> 0, kind |-> "none", model |-> "", details |-> ""]

Forwarded == [status |-> 0, kind |-> "next", model |-> "", details |-> ""]

isGenerateEndpoint(rq) == rq.path = "/api/generate"

isChatEndpoint(rq) == rq.path = "/api/chat"

ModelOf(rq) == IF rq.body.model = "" THEN UnknownModel ELSE rq.body.model

\* Response of chatMiddleware when the probe was unhealthy.
StubResponse(rq) ==
    LET isStreaming == rq.body.present /\ rq.body.stream IN
    IF isStreaming
    THEN IF isGenerateEndpoint(rq)
         THEN [status |-> 200, kind |-> "generate-chunk", model |-> ModelOf(rq), details |-> ""]
         ELSE IF isChatEndpoint(rq)
         THEN [status |-> 200, kind |-> "chat-chunk", model |-> ModelOf(rq), details |-> ""]
         ELSE [status |-> 200, kind |-> "empty", model |-> "", details |-> ""]
    ELSE IF isGenerateEndpoint(rq) \/ isChatEndpoint(rq)
         THEN IF ~rq.body.present
              THEN \* requestBody.model on an undefined body throws: catch block
                   [status |-> 503, kind |-> "error", model |-> "", details |-> "TypeError"]
              ELSE [status |-> 200,
                    kind |-> IF isGenerateEndpoint(rq) THEN "generate" ELSE "chat",
                    model |-> ModelOf(rq), details |-> ""]
         ELSE [status |-> 503, kind |-> "waking_up", model |-> "", details |-> ""]

\* The timing counters of the backend's envelope.
TimingFields ==
    {"total_duration", "load_duration", "prompt_eval_count",
     "prompt_eval_duration", "eval_count", "eval_duration"}

\* The fields of the JSON body written for each kind of response.
BodyFields(kind) ==
    CASE kind = "generate-chunk" -> {"model", "created_at", "response", "done"}
      [] kind = "chat-chunk" -> {"model", "created_at", "message", "done"}
      [] kind = "generate" ->
            {"model", "created_at", "response", "done", "context"} \cup TimingFields
      [] kind = "chat" -> {"model", "created_at", "message", "done"} \cup TimingFields
      [] kind = "waking_up" ->
            {"message", "instruction", "status", "estimated_wait", "timestamp"}
      [] kind = "error" -> {"message", "instruction", "error", "status", "timestamp"}
      [] kind = "unavailable" -> {"error", "message", "details"}
      [] kind = "bad_gateway" ->
            {"error", "message", "details", "code", "target", "timestamp"}
      [] OTHER -> {}

\* Response of middleware() when ensureOllamaReady throws.
Unavailable(msg) == [status |-> 503, kind |-> "unavailable", model |-> "", details |-> msg]

\* ------------------------------------------------- the two network calls
WakeApiKey == "wake-api-key"

Schemes == {"http", "https"}

NoNetRequest == [method |-> "", path |-> "", apiKey |-> "", verifyTls |-> TRUE]

\* The request checkOllamaHealth hands to axios.get: for an https URL an
\* https.Agent with rejectUnauthorized: false, otherwise no agent.
ProbeRequest(scheme) ==
    [method |-> "GET", path |-> "/api/tags", apiKey |-> "",
     verifyTls |-> IF scheme = "https" THEN FALSE ELSE TRUE]

\* The request wakeComputer hands to axios.post.
WakeRequest ==
    [method |-> "POST", path |-> "wakeUrl", apiKey |-> WakeApiKey, verifyTls |-> TRUE]

\* Final outcomes of the probe's GET, by the state of the backend.
WireProbeOutcomes(up) ==
    IF up THEN {Http(200), Http(201), Http(204), Http(404), Http(500)}
          ELSE {Err("ECONNREFUSED"), Err("ECONNRESET"), Err("ETIMEDOUT"),
                Err("CERT_HAS_EXPIRED"), Err("UNABLE_TO_VERIFY_LEAF_SIGNATURE")}

\* Final outcomes of the wake POST.
WireWakeOutcomes ==
    {Http(200), Http(201), Http(204), Http(401), Http(500),
     Err("ECONNREFUSED"), Err("ETIMEDOUT")}

NetIdle(scheme) ==
    [scheme |-> scheme, call |-> "none", phase |-> "idle", sent |-> 0,
     request |-> NoNetRequest, outcome |-> Err("none"), result |-> FALSE]

\* -------------------------------------------------------------------- state
VARIABLES
    isWaking,     \* this.isWaking
    backendUp,    \* environment: the backend answers its liveness path
    everUp,       \* history: the backend has been up at some time
    pc,           \* where each request's handler is suspended
    op,           \* "ensure" (middleware) or "gate" (chatMiddleware)
    req,          \* the request handled by chatMiddleware
    steps,        \* history: what the call did, in order
    probes,       \* history: results of the call's probes
    wakeRes,      \* history: results of the call's awaited wake calls
    outcome,      \* result of the call
    response,     \* what the handler did with res / next
    listening,    \* the client is still connected
    bgWake,       \* chatMiddleware calls whose detached wake call is outstanding
    net           \* the network call of checkOllamaHealth / wakeComputer observed alone

vars == <<isWaking, backendUp, everUp, pc, op, req, steps, probes, wakeRes,
          outcome, response, listening, bgWake, net>>

Count(s, e) == Cardinality({i \in 1..Len(s) : s[i] = e})

Has(s, e) == \E i \in 1..Len(s) : s[i] = e

\* What the call did once it was past the polling wait.
Own(s) == SelectSeq(s, LAMBDA e : e # "wait")

InProgress(p) == pc[p] \notin {"idle", "done"}

\* The call has claimed and has not yet returned.
InWakeSequence(p) == op[p] = "ensure" /\ pc[p] \in {"wake", "delay", "probe2"}

InitState ==
    /\ isWaking = FALSE
    /\ backendUp \in BOOLEAN
    /\ everUp = backendUp
    /\ pc = [p \in Procs |-> "idle"]
    /\ op = [p \in Procs |-> "none"]
    /\ req = [p \in Procs |-> NoRequest]
    /\ steps = [p \in Procs |-> <<>>]
    /\ probes = [p \in Procs |-> <<>>]
    /\ wakeRes = [p \in Procs |-> <<>>]
    /\ outcome = [p \in Procs |-> "none"]
    /\ response = [p \in Procs |-> NoResponse]
    /\ listening = [p \in Procs |-> TRUE]
    /\ bgWake = {}

Init ==
    /\ InitState
    /\ net = NetIdle("http")

\* -------------------------------------------------------------- environment
BackendBoot ==
    /\ ~backendUp
    /\ backendUp' = TRUE
    /\ everUp' = TRUE
    /\ UNCHANGED <<isWaking, pc, op, req, steps, probes, wakeRes, outcome,
                   response, listening, bgWake, net>>

BackendHalt ==
    /\ backendUp
    /\ backendUp' = FALSE
    /\ UNCHANGED <<isWaking, everUp, pc, op, req, steps, probes, wakeRes,
                   outcome, response, listening, bgWake, net>>

\* The client closes its connection; no handler observes it.
ClientAbort(p) ==
    /\ InProgress(p)
    /\ listening[p]
    /\ listening' = [listening EXCEPT ![p] = FALSE]
    /\ UNCHANGED <<isWaking, backendUp, everUp, pc, op, req, steps, probes,
                   wakeRes, outcome, response, bgWake, net>>

\* ------------------------------------------------------- ensureOllamaReady
\* middleware() calls ensureOllamaReady: the isWaking test, and when it is
\* false the start of the first probe, up to the await of axios.get.
EnsureStart(p) ==
    /\ pc[p] = "idle"
    /\ op' = [op EXCEPT ![p] = "ensure"]
    /\ IF isWaking
       THEN /\ pc' = [pc EXCEPT ![p] = "poll"]
            /\ steps' = [steps EXCEPT ![p] = Append(@, "wait")]
       ELSE /\ pc' = [pc EXCEPT ![p] = "probe1"]
            /\ steps' = [steps EXCEPT ![p] = Append(@, "probe")]
    /\ UNCHANGED <<isWaking, backendUp, everUp, probes, wakeRes, outcome,
                   response, listening, bgWake, net>>

EnsureEnter(p) ==
    /\ EnsureStart(p)
    /\ UNCHANGED req

PollTick_ReturnsOnFlip(p) ==
    /\ pc[p] = "poll"
    /\ IF isWaking
       THEN UNCHANGED <<pc, steps, outcome, response>>
       ELSE /\ pc' = [pc EXCEPT ![p] = "done"]
            /\ steps' = [steps EXCEPT ![p] = Append(@, "return")]
            /\ outcome' = [outcome EXCEPT ![p] = "ok"]
            /\ response' = [response EXCEPT ![p] = Forwarded]
    /\ UNCHANGED <<isWaking, backendUp, everUp, op, req, probes, wakeRes,
                   listening, bgWake, net>>

\* The one second timer of the polling loop fires: test isWaking again.
PollTick(p) ==
    /\ pc[p] = "poll"
    /\ IF isWaking
       THEN UNCHANGED <<pc, steps>>
       ELSE /\ pc' = [pc EXCEPT ![p] = "probe1"]
            /\ steps' = [steps EXCEPT ![p] = Append(@, "probe")]
    /\ UNCHANGED <<isWaking, backendUp, everUp, op, req, probes, wakeRes,
                   outcome, response, listening, bgWake, net>>

ProbeHealthy_Clears(p) ==
    /\ isWaking' = FALSE
    /\ pc' = [pc EXCEPT ![p] = "done"]
    /\ steps' = [steps EXCEPT ![p] = @ \o <<"clear", "return">>]
    /\ outcome' = [outcome EXCEPT ![p] = "ok"]
    /\ response' = [response EXCEPT ![p] = Forwarded]

\* First probe healthy: return true; middleware() calls next().
ProbeHealthy(p) ==
    /\ pc' = [pc EXCEPT ![p] = "done"]
    /\ steps' = [steps EXCEPT ![p] = Append(@, "return")]
    /\ outcome' = [outcome EXCEPT ![p] = "ok"]
    /\ response' = [response EXCEPT ![p] = Forwarded]
    /\ UNCHANGED <<isWaking>>

\* First probe unhealthy: isWaking = true, then wakeComputer() up to the
\* await of axios.post.
ClaimAndWake(p) ==
    /\ isWaking' = TRUE
    /\ pc' = [pc EXCEPT ![p] = "wake"]
    /\ steps' = [steps EXCEPT ![p] = @ \o <<"set", "wake">>]
    /\ UNCHANGED <<outcome, response>>

ProbeDone1(p, r) ==
    /\ pc[p] = "probe1"
    /\ r \in ProbeOutcomes(backendUp)
    /\ probes' = [probes EXCEPT ![p] = Append(@, checkOllamaHealth(r))]
    /\ IF checkOllamaHealth(r) THEN ProbeHealthy(p) ELSE ClaimAndWake(p)
    /\ UNCHANGED <<backendUp, everUp, op, req, wakeRes, listening, bgWake, net>>

WakeFailed_NoClear(p) ==
    /\ pc' = [pc EXCEPT ![p] = "done"]
    /\ steps' = [steps EXCEPT ![p] = Append(@, "return")]
    /\ outcome' = [outcome EXCEPT ![p] = WakeFailedMsg]
    /\ response' = [response EXCEPT ![p] = Unavailable(WakeFailedMsg)]
    /\ UNCHANGED isWaking

WakeFailed_Proceeds(p) ==
    /\ pc' = [pc EXCEPT ![p] = "delay"]
    /\ steps' = [steps EXCEPT ![p] = Append(@, "delay")]
    /\ UNCHANGED <<isWaking, outcome, response>>

WakeFailed_Forwards(p) ==
    /\ isWaking' = FALSE
    /\ pc' = [pc EXCEPT ![p] = "done"]
    /\ steps' = [steps EXCEPT ![p] = @ \o <<"clear", "clear", "return">>]
    /\ outcome' = [outcome EXCEPT ![p] = WakeFailedMsg]
    /\ response' = [response EXCEPT ![p] = Forwarded]

\* wakeResult false: isWaking = false, throw; the catch block clears again
\* and rethrows; middleware() answers 503.
WakeFailed(p) ==
    /\ isWaking' = FALSE
    /\ pc' = [pc EXCEPT ![p] = "done"]
    /\ steps' = [steps EXCEPT ![p] = @ \o <<"clear", "clear", "return">>]
    /\ outcome' = [outcome EXCEPT ![p] = WakeFailedMsg]
    /\ response' = [response EXCEPT ![p] = Unavailable(WakeFailedMsg)]

WakeOk_NoDelay(p) ==
    /\ pc' = [pc EXCEPT ![p] = "probe2"]
    /\ steps' = [steps EXCEPT ![p] = Append(@, "probe")]
    /\ UNCHANGED <<isWaking, outcome, response>>

\* wakeResult true: await this.delay().
WakeOk(p) ==
    /\ pc' = [pc EXCEPT ![p] = "delay"]
    /\ steps' = [steps EXCEPT ![p] = Append(@, "delay")]
    /\ UNCHANGED <<isWaking, outcome, response>>

WakeDone(p, w) ==
    /\ pc[p] = "wake"
    /\ w \in WakeOutcomes
    /\ wakeRes' = [wakeRes EXCEPT ![p] = Append(@, wakeComputer(w))]
    /\ IF wakeComputer(w) THEN WakeOk(p) ELSE WakeFailed(p)
    /\ UNCHANGED <<backendUp, everUp, op, req, probes, listening, bgWake, net>>

\* The delay timer fires: start the second probe.
DelayDone(p) ==
    /\ pc[p] = "delay"
    /\ pc' = [pc EXCEPT ![p] = "probe2"]
    /\ steps' = [steps EXCEPT ![p] = Append(@, "probe")]
    /\ UNCHANGED <<isWaking, backendUp, everUp, op, req, probes, wakeRes,
                   outcome, response, listening, bgWake, net>>

\* Second probe healthy: isWaking = false, return true.
ReadyAfterWake(p) ==
    /\ isWaking' = FALSE
    /\ pc' = [pc EXCEPT ![p] = "done"]
    /\ steps' = [steps EXCEPT ![p] = @ \o <<"clear", "return">>]
    /\ outcome' = [outcome EXCEPT ![p] = "ok"]
    /\ response' = [response EXCEPT ![p] = Forwarded]

StillUnhealthy_NoClear(p) ==
    /\ pc' = [pc EXCEPT ![p] = "done"]
    /\ steps' = [steps EXCEPT ![p] = Append(@, "return")]
    /\ outcome' = [outcome EXCEPT ![p] = StillUnhealthyMsg]
    /\ response' = [response EXCEPT ![p] = Unavailable(StillUnhealthyMsg)]
    /\ UNCHANGED isWaking

StillUnhealthy_SameError(p) ==
    /\ isWaking' = FALSE
    /\ pc' = [pc EXCEPT ![p] = "done"]
    /\ steps' = [steps EXCEPT ![p] = @ \o <<"clear", "clear", "return">>]
    /\ outcome' = [outcome EXCEPT ![p] = WakeFailedMsg]
    /\ response' = [response EXCEPT ![p] = Unavailable(WakeFailedMsg)]

StillUnhealthy_Retries(p) ==
    /\ pc' = [pc EXCEPT ![p] = "wake"]
    /\ steps' = [steps EXCEPT ![p] = Append(@, "wake")]
    /\ UNCHANGED <<isWaking, outcome, response>>

\* Second probe unhealthy: isWaking = false, throw; catch clears and rethrows.
StillUnhealthy(p) ==
    /\ isWaking' = FALSE
    /\ pc' = [pc EXCEPT ![p] = "done"]
    /\ steps' = [steps EXCEPT ![p] = @ \o <<"clear", "clear", "return">>]
    /\ outcome' = [outcome EXCEPT ![p] = StillUnhealthyMsg]
    /\ response' = [response EXCEPT ![p] = Unavailable(StillUnhealthyMsg)]

ProbeDone2(p, r) ==
    /\ pc[p] = "probe2"
    /\ r \in ProbeOutcomes(backendUp)
    /\ probes' = [probes EXCEPT ![p] = Append(@, checkOllamaHealth(r))]
    /\ IF checkOllamaHealth(r) THEN ReadyAfterWake(p) ELSE StillUnhealthy(p)
    /\ UNCHANGED <<backendUp, everUp, op, req, wakeRes, listening, bgWake, net>>

\* ----------------------------------------------------------- chatMiddleware
\* The handler starts its probe.
GateStart(p, rq) ==
    /\ pc[p] = "idle"
    /\ op' = [op EXCEPT ![p] = "gate"]
    /\ req' = [req EXCEPT ![p] = rq]
    /\ pc' = [pc EXCEPT ![p] = "gprobe"]
    /\ steps' = [steps EXCEPT ![p] = Append(@, "probe")]
    /\ UNCHANGED <<isWaking, backendUp, everUp, probes, wakeRes, outcome,
                   response, listening, bgWake, net>>

GateEnter(p, rq) ==
    /\ rq \in GateRequests
    /\ GateStart(p, rq)

\* Probe healthy: next().
GateProceed(p) ==
    /\ pc' = [pc EXCEPT ![p] = "done"]
    /\ steps' = [steps EXCEPT ![p] = Append(@, "return")]
    /\ outcome' = [outcome EXCEPT ![p] = "proceed"]
    /\ response' = [response EXCEPT ![p] = Forwarded]
    /\ UNCHANGED bgWake

GateStub_SingleFlight(p) ==
    /\ bgWake' = IF isWaking \/ bgWake # {} THEN bgWake ELSE bgWake \cup {p}
    /\ pc' = [pc EXCEPT ![p] = "done"]
    /\ steps' = [steps EXCEPT ![p] =
           IF isWaking \/ bgWake # {} THEN Append(@, "return") ELSE @ \o <<"wake", "return">>]
    /\ outcome' = [outcome EXCEPT ![p] = "stub"]
    /\ response' = [response EXCEPT ![p] = StubResponse(req[p])]

\* Probe unhealthy: wakeComputer() is started and not awaited, the response
\* is written in the same turn of the event loop.
GateStub(p) ==
    /\ bgWake' = bgWake \cup {p}
    /\ pc' = [pc EXCEPT ![p] = "done"]
    /\ steps' = [steps EXCEPT ![p] = @ \o <<"wake", "return">>]
    /\ outcome' = [outcome EXCEPT ![p] = "stub"]
    /\ response' = [response EXCEPT ![p] = StubResponse(req[p])]

GateProbeDone(p, r) ==
    /\ pc[p] = "gprobe"
    /\ r \in ProbeOutcomes(backendUp)
    /\ probes' = [probes EXCEPT ![p] = Append(@, checkOllamaHealth(r))]
    /\ IF checkOllamaHealth(r) THEN GateProceed(p) ELSE GateStub(p)
    /\ UNCHANGED <<isWaking, backendUp, everUp, op, req, wakeRes, listening, net>>

BgWakeEffect_Surfaces(p, w) ==
    /\ response' = [response EXCEPT ![p] =
           IF wakeComputer(w) THEN @ ELSE Unavailable(WakeFailedMsg)]
    /\ UNCHANGED <<pc, outcome>>

\* What the completion of the detached wake call does to the request that
\* started it: wakeComputer logs and resolves, nothing is attached to it.
BgWakeEffect(p, w) ==
    UNCHANGED <<pc, outcome, response>>

\* The detached wake call of a chatMiddleware request completes.
BgWakeDone(p, w) ==
    /\ p \in bgWake
    /\ w \in WakeOutcomes
    /\ bgWake' = bgWake \ {p}
    /\ BgWakeEffect(p, w)
    /\ UNCHANGED <<isWaking, backendUp, everUp, op, req, steps, probes,
                   wakeRes, listening, net>>

\* ------------------------------------------------------------ specification
Step(p) ==
    \/ PollTick(p)
    \/ \E r \in ProbeOutcomes(backendUp) : ProbeDone1(p, r)
    \/ \E w \in WakeOutcomes : WakeDone(p, w)
    \/ DelayDone(p)
    \/ \E r \in ProbeOutcomes(backendUp) : ProbeDone2(p, r)
    \/ \E r \in ProbeOutcomes(backendUp) : GateProbeDone(p, r)
    \/ \E w \in WakeOutcomes : BgWakeDone(p, w)

Next ==
    \/ BackendBoot
    \/ BackendHalt
    \/ \E p \in Procs : ClientAbort(p)
    \/ \E p \in Procs : EnsureEnter(p)
    \/ \E p \in Procs, rq \in GateRequests : GateEnter(p, rq)
    \/ \E p \in Procs : Step(p)

Spec == Init /\ [][Next]_vars

\* Every timer and every network call completes; requests need not arrive.
FairSpec == Spec /\ \A p \in Procs : WF_vars(Step(p))

\* Route registration of the server: app.use('/api', middleware(), proxy)
\* and app.use('/', middleware(), proxy); chatMiddleware() is mounted nowhere.
Route(path) == "ensure"

\* The requests the server specification receives.
ServerRequests ==
    {[path |-> pa, body |-> [present |-> TRUE, stream |-> TRUE, model |-> "llama2"]] :
        pa \in Paths}

\* A request reaches the route layer, which picks the handler by its path.
ServerRequest(p, rq) ==
    /\ rq \in ServerRequests
    /\ IF Route(rq.path) = "gate"
       THEN GateStart(p, rq)
       ELSE /\ EnsureStart(p)
            /\ req' = [req EXCEPT ![p] = rq]

NextServer ==
    \/ BackendBoot
    \/ BackendHalt
    \/ \E p \in Procs, rq \in ServerRequests : ServerRequest(p, rq)
    \/ \E p \in Procs : PollTick(p)
    \/ \E p \in Procs, r \in ProbeOutcomes(backendUp) : ProbeDone1(p, r)
    \/ \E p \in Procs, w \in WakeOutcomes : WakeDone(p, w)
    \/ \E p \in Procs : DelayDone(p)
    \/ \E p \in Procs, r \in ProbeOutcomes(backendUp) : ProbeDone2(p, r)

SpecServer == Init /\ [][NextServer]_vars

\* ------------------------------------ checkOllamaHealth and wakeComputer alone
\* The constructor with an http or an https backend URL.
InitIO ==
    /\ InitState
    /\ net \in {NetIdle(sc) : sc \in Schemes}

\* checkOllamaHealth is called: one axios.get is issued.
ProbeSend ==
    /\ net.phase # "sent"
    /\ net' = [net EXCEPT !.call = "probe", !.phase = "sent", !.sent = 1,
                          !.request = ProbeRequest(net.scheme),
                          !.outcome = Err("none"), !.result = FALSE]
    /\ UNCHANGED <<isWaking, backendUp, everUp, pc, op, req, steps, probes,
                   wakeRes, outcome, response, listening, bgWake>>

\* The GET ends: checkOllamaHealth returns its boolean.
ProbeRecv(r) ==
    /\ net.call = "probe" /\ net.phase = "sent"
    /\ r \in WireProbeOutcomes(backendUp)
    /\ net' = [net EXCEPT !.phase = "done", !.outcome = r,
                          !.result = checkOllamaHealth(r)]
    /\ UNCHANGED <<isWaking, backendUp, everUp, pc, op, req, steps, probes,
                   wakeRes, outcome, response, listening, bgWake>>

\* wakeComputer is called: one axios.post is issued.
WakeSend ==
    /\ net.phase # "sent"
    /\ net' = [net EXCEPT !.call = "wake", !.phase = "sent", !.sent = 1,
                          !.request = WakeRequest,
                          !.outcome = Err("none"), !.result = FALSE]
    /\ UNCHANGED <<isWaking, backendUp, everUp, pc, op, req, steps, probes,
                   wakeRes, outcome, response, listening, bgWake>>

\* The POST ends: wakeComputer returns its boolean.
WakeRecv(w) ==
    /\ net.call = "wake" /\ net.phase = "sent"
    /\ w \in WireWakeOutcomes
    /\ net' = [net EXCEPT !.phase = "done", !.outcome = w,
                          !.result = wakeComputer(w)]
    /\ UNCHANGED <<isWaking, backendUp, everUp, pc, op, req, steps, probes,
                   wakeRes, outcome, response, listening, bgWake>>

NextIO ==
    \/ BackendBoot
    \/ BackendHalt
    \/ ProbeSend
    \/ \E r \in WireProbeOutcomes(backendUp) : ProbeRecv(r)
    \/ WakeSend
    \/ \E w \in WireWakeOutcomes : WakeRecv(w)

SpecIO == InitIO /\ [][NextIO]_vars

\* ------------------------------------------------ the forwarder's onError
\* Error codes the proxy can fail with.
ProxyErrorCodes == {"ECONNRESET", "ECONNREFUSED", "ETIMEDOUT", "ENOTFOUND", "EPIPE"}

\* The codes onError treats as a lost connection to the backend.
ConnectionErrorCodes == {"ECONNRESET", "ECONNREFUSED", "ETIMEDOUT"}

BadGateway(code) == [status |-> 502, kind |-> "bad_gateway", model |-> "", details |-> code]

OnErrorResponse_NoTimeout(rq, code) ==
    IF code \in {"ECONNRESET", "ECONNREFUSED"}
    THEN IF isChatEndpoint(rq)
         THEN [status |-> 200, kind |-> "chat", model |-> ModelOf(rq), details |-> code]
         ELSE IF isGenerateEndpoint(rq)
         THEN [status |-> 200, kind |-> "generate", model |-> ModelOf(rq), details |-> code]
         ELSE BadGateway(code)
    ELSE BadGateway(code)

\* proxyOptions.onError: for a connection error the answer has the shape of
\* the endpoint (chat is tested first), for any other error it is the
\* generic 502; the error code is part of every answer.
OnErrorResponse(rq, code) ==
    IF code \in ConnectionErrorCodes
    THEN IF isChatEndpoint(rq)
         THEN [status |-> 200, kind |-> "chat", model |-> ModelOf(rq), details |-> code]
         ELSE IF isGenerateEndpoint(rq)
         THEN [status |-> 200, kind |-> "generate", model |-> ModelOf(rq), details |-> code]
         ELSE BadGateway(code)
    ELSE BadGateway(code)

\* The handler of the forwarded request.
ProxyProc == 1

\* The requests as the proxied routes see them: no body parser is mounted
\* on them, req.body is undefined.
ProxyRequests == {[path |-> pa, body |-> NoBody] : pa \in Paths}

\* A request reaches app.use('/api', middleware(), proxy).
ProxyRequest(p, rq) ==
    /\ rq \in ProxyRequests
    /\ Route(rq.path) = "ensure"
    /\ EnsureStart(p)
    /\ req' = [req EXCEPT ![p] = rq]

\* The forwarder fails after next(): onError answers.
ProxyError(p, code) ==
    /\ pc[p] = "done"
    /\ response[p] = Forwarded
    /\ code \in ProxyErrorCodes
    /\ response' = [response EXCEPT ![p] = OnErrorResponse(req[p], code)]
    /\ net' = [net EXCEPT !.call = "proxy", !.phase = "done", !.outcome = Err(code)]
    /\ UNCHANGED <<isWaking, backendUp, everUp, pc, op, req, steps, probes,
                   wakeRes, outcome, listening, bgWake>>

NextProxy ==
    \/ BackendBoot
    \/ BackendHalt
    \/ \E rq \in ProxyRequests : ProxyRequest(ProxyProc, rq)
    \/ \E r \in ProbeOutcomes(backendUp) : ProbeDone1(ProxyProc, r)
    \/ \E w \in WakeOutcomes : WakeDone(ProxyProc, w)
    \/ DelayDone(ProxyProc)
    \/ \E r \in ProbeOutcomes(backendUp) : ProbeDone2(ProxyProc, r)
    \/ \E code \in ProxyErrorCodes : ProxyError(ProxyProc, code)

SpecProxy == Init /\ [][NextProxy]_vars

\* chatMiddleware serving one request of any shape.
GateProc == 1

NextGate ==
    \/ BackendBoot
    \/ BackendHalt
    \/ ClientAbort(GateProc)
    \/ \E rq \in Requests : GateStart(GateProc, rq)
    \/ \E r \in ProbeOutcomes(backendUp) : GateProbeDone(GateProc, r)
    \/ \E w \in WakeOutcomes : BgWakeDone(GateProc, w)

SpecGate == Init /\ [][NextGate]_vars

TypeOK ==
    /\ isWaking \in BOOLEAN
    /\ backendUp \in BOOLEAN
    /\ pc \in [Procs -> {"idle", "poll", "probe1", "wake", "delay", "probe2", "gprobe", "done"}]
    /\ op \in [Procs -> {"none", "ensure", "gate"}]
    /\ bgWake \subseteq Procs

\* ------------------------------------------------------------------ claims
EnsureCallers == {p \in Procs : op[p] = "ensure"}

\* C1: while the backend has stayed unhealthy, the ensureOllamaReady calls
\* that are in progress together have made at most one wakeComputer call.
C1_AtMostOneWakeCall ==
    ~everUp =>
        Cardinality({p \in EnsureCallers : InProgress(p) /\ Has(steps[p], "wake")}) <= 1

\* C2: at most one ensureOllamaReady call is between isWaking = true and
\* the clearing of the flag.
C2_SingleWakeSequence ==
    Cardinality({p \in Procs : InWakeSequence(p)}) <= 1

\* C3 as stated: whenever any call returns, isWaking is false.
C3_WakingFalseAtEveryReturn ==
    [][\A p \in Procs : (pc[p] # "done" /\ pc'[p] = "done") => ~isWaking']_vars

\* C3 amended: whenever a call that set isWaking = true returns, whatever
\* its outcome, isWaking is false at that moment.
C3_WakingFalseAtClaimantReturn ==
    [][\A p \in Procs :
         (pc[p] # "done" /\ pc'[p] = "done" /\ Has(steps'[p], "set")) => ~isWaking']_vars

C3_Witness ==
    \E p, q \in Procs :
        /\ p # q
        /\ pc[p] = "done" /\ Has(steps[p], "set") /\ ~isWaking
        /\ InProgress(q)

\* C4: whenever isWaking is true it is later false, on every exit path of
\* the wake sequence, listened to or not.
C4_WakingEventuallyCleared == isWaking ~> ~isWaking

C4_Witness ==
    \E p \in Procs :
        /\ pc[p] = "done" /\ ~listening[p]
        /\ outcome[p] = StillUnhealthyMsg
        /\ ~isWaking

\* C5: every ensureOllamaReady call in progress eventually returns.
C5_EveryCallReturns ==
    \A p \in Procs : (op[p] = "ensure" /\ InProgress(p)) ~> (pc[p] = "done")

C5_Witness ==
    \E p, q \in Procs :
        /\ pc[p] = "done" /\ Has(steps[p], "wait")
        /\ pc[q] = "done" /\ outcome[q] = WakeFailedMsg

\* C6: a call whose first probe is healthy returns success after that one
\* probe: no wake call, no delay, no write of isWaking.
C6_HotPath ==
    \A p \in EnsureCallers :
        (pc[p] = "done" /\ Len(probes[p]) >= 1 /\ probes[p][1]) =>
            /\ outcome[p] = "ok"
            /\ Own(steps[p]) = <<"probe", "return">>

C6_Witness ==
    \E p, q \in Procs :
        /\ op[p] = "ensure" /\ pc[p] = "done" /\ probes[p] = <<TRUE>>
        /\ InWakeSequence(q)

\* C7: first probe unhealthy, wake call succeeded, second probe healthy:
\* the call returns success after probe, isWaking = true, one wake call,
\* delay, second probe, isWaking = false, return, in this order.
C7_WakeSequenceOrder ==
    \A p \in EnsureCallers :
        (pc[p] = "done" /\ probes[p] = <<FALSE, TRUE>> /\ wakeRes[p] = <<TRUE>>) =>
            /\ outcome[p] = "ok"
            /\ Own(steps[p]) = <<"probe", "set", "wake", "delay", "probe", "clear", "return">>

C7_Witness ==
    \E p \in EnsureCallers :
        /\ pc[p] = "done" /\ probes[p] = <<FALSE, TRUE>> /\ wakeRes[p] = <<TRUE>>
        /\ \A q \in Procs \ {p} : pc[q] = "idle"

\* C8: in the step in which the wake call of a call fails, the call clears
\* isWaking and fails with the wake-failed error; it has awaited no delay
\* and made no second probe.
C8_WakeFailure ==
    [][\A p \in EnsureCallers :
         (wakeRes[p] = <<>> /\ wakeRes'[p] = <<FALSE>>) =>
            /\ pc'[p] = "done"
            /\ outcome'[p] = WakeFailedMsg
            /\ ~isWaking'
            /\ Has(steps'[p], "clear")
            /\ Count(steps'[p], "delay") = 0
            /\ Count(steps'[p], "probe") = 1]_vars

C8_Witness ==
    \E p \in EnsureCallers :
        pc[p] = "done" /\ wakeRes[p] = <<FALSE>> /\ outcome[p] = WakeFailedMsg

\* C9: in the step in which the probe after the delay is unhealthy, the
\* call fails with the still-unhealthy error, which differs from the
\* wake-failed error, and isWaking is false.
C9_StillUnhealthy ==
    [][\A p \in EnsureCallers :
         (Len(probes[p]) = 1 /\ Len(probes'[p]) = 2 /\ ~probes'[p][2]) =>
            /\ pc'[p] = "done"
            /\ outcome'[p] = StillUnhealthyMsg
            /\ outcome'[p] # WakeFailedMsg
            /\ response'[p].details # WakeFailedMsg
            /\ ~isWaking']_vars

C9_Witness ==
    \E p \in EnsureCallers :
        pc[p] = "done" /\ probes[p] = <<FALSE, FALSE>> /\ wakeRes[p] = <<TRUE>>

\* C10: the chatMiddleware handler is suspended only on its probe; on an
\* unhealthy probe it answers in the step that starts the wake call, which
\* is then still outstanding, and the completion of that wake call, success
\* or failure, changes neither the response nor the outcome.
C10_GateDoesNotAwaitWake ==
    [][\A p \in Procs :
         /\ (op[p] = "gate" /\ InProgress(p)) => pc[p] = "gprobe"
         /\ (pc[p] = "gprobe" /\ Len(probes'[p]) = 1 /\ ~probes'[p][1]) =>
                /\ pc'[p] = "done"
                /\ response'[p] # NoResponse
                /\ p \in bgWake'
         /\ (p \in bgWake /\ p \notin bgWake') =>
                /\ response'[p] = response[p]
                /\ outcome'[p] = outcome[p]
                /\ pc'[p] = "done"]_vars

C10_Witness ==
    \E p \in Procs :
        /\ op[p] = "gate" /\ pc[p] = "done" /\ outcome[p] = "stub"
        /\ response[p].status = 200
        /\ p \in bgWake

\* C11: a chatMiddleware call whose probe is unhealthy starts its own wake
\* call and answers with its stub whatever isWaking is and whatever other
\* wake calls are outstanding, and no step of a chatMiddleware call writes
\* isWaking.
C11_GateWakesEveryTime ==
    [][\A p \in Procs :
         /\ (pc[p] = "gprobe" /\ Len(probes'[p]) = 1 /\ ~probes'[p][1]) =>
                /\ p \in bgWake'
                /\ Count(steps'[p], "wake") = 1
                /\ outcome'[p] = "stub"
         /\ (op'[p] = "gate" /\ pc'[p] # pc[p]) => isWaking' = isWaking]_vars

C11_Witness ==
    \E p, q \in Procs :
        /\ p # q
        /\ op[p] = "gate" /\ outcome[p] = "stub" /\ Has(steps[p], "wake")
        /\ op[q] = "gate" /\ outcome[q] = "stub" /\ Has(steps[q], "wake")
        /\ {p, q} \subseteq bgWake

\* C15: a request handled by middleware() gets exactly one of next() (on
\* success) and a 503 response carrying the error message (on failure);
\* once answered the handler does nothing more: no retry, no second answer.
C15_BlockingPolicyAnswer ==
    [][\A p \in EnsureCallers :
         /\ (pc[p] # "done" /\ pc'[p] = "done") =>
                /\ Count(steps'[p], "return") = 1
                /\ outcome'[p] = "ok" => response'[p] = Forwarded
                /\ outcome'[p] # "ok" =>
                       /\ outcome'[p] \in {WakeFailedMsg, StillUnhealthyMsg}
                       /\ response'[p].status = 503
                       /\ response'[p].details = outcome'[p]
         /\ pc[p] = "done" =>
                /\ pc'[p] = "done"
                /\ response'[p] = response[p]
                /\ steps'[p] = steps[p]
                /\ probes'[p] = probes[p]]_vars

C15_Witness ==
    \E p, q \in EnsureCallers :
        /\ pc[p] = "done" /\ response[p] = Forwarded
        /\ pc[q] = "done" /\ response[q].status = 503
        /\ response[q].details = StillUnhealthyMsg

\* C20: isWaking is true whenever some ensureOllamaReady call is inside its
\* wake sequence.
C20_WakingWhileInSequence ==
    (\E p \in Procs : InWakeSequence(p)) => isWaking

\* A chatMiddleware call has answered after an unhealthy probe.
Stubbed(p) == op[p] = "gate" /\ pc[p] = "done" /\ probes[p] = <<FALSE>>

\* C12: whatever the endpoint, the streaming flag and the body, the answer
\* of chatMiddleware after an unhealthy probe has status 200 and a stub
\* body.
C12_StubNeverErrorStatus ==
    \A p \in Procs :
        Stubbed(p) => (response[p].status = 200 /\ BodyFields(response[p].kind) # {})

\* C13: for a path that is neither generate nor chat the answer after an
\* unhealthy probe is the generic waking-up envelope, streaming or not.
C13_OtherKindGenericEnvelope ==
    \A p \in Procs :
        (Stubbed(p) /\ ~isGenerateEndpoint(req[p]) /\ ~isChatEndpoint(req[p])) =>
            response[p].kind = "waking_up"

\* C16: for a generate or chat request with a body, streaming or not, the
\* stub carries model (the request's), created_at, the text field, done and
\* the six timing counters.
C16_StubCarriesEnvelope ==
    \A p \in Procs :
        (/\ Stubbed(p)
         /\ req[p].body.present
         /\ isGenerateEndpoint(req[p]) \/ isChatEndpoint(req[p])) =>
            /\ response[p].model = ModelOf(req[p])
            /\ {"model", "created_at", "done"} \cup TimingFields
                   \subseteq BodyFields(response[p].kind)
            /\ (IF isGenerateEndpoint(req[p]) THEN "response" ELSE "message")
                   \in BodyFields(response[p].kind)

\* C14: a request to /api/chat or /api/generate is handled by
\* chatMiddleware and never waits in the polling loop or on the wake delay.
C14_ChatRoutesNonBlocking ==
    \A p \in Procs :
        (pc[p] # "idle" /\ req[p].path \in {"/api/chat", "/api/generate"}) =>
            /\ op[p] = "gate"
            /\ pc[p] \notin {"poll", "wake", "delay", "probe2"}

\* C17: the probe returns healthy exactly when its single GET ended with
\* status 200; every other status and every transport or TLS error gives
\* the value false, after one GET.
C17_ProbeHealthyIff200 ==
    (net.call = "probe" /\ net.phase = "done") =>
        /\ net.result = (net.outcome.code = "none" /\ net.outcome.status = 200)
        /\ net.request.method = "GET"
        /\ net.sent = 1

C17_Witness ==
    /\ net.call = "probe" /\ net.phase = "done"
    /\ net.outcome = Http(204) /\ ~net.result

\* C18: the wake call is one POST carrying the API key in a header and
\* reports success exactly when the status is 200; every other status and
\* every transport error gives the value false, after one POST.
C18_WakeSucceedsIff200 ==
    /\ (net.call = "wake" /\ net.phase # "idle") =>
          /\ net.request.method = "POST"
          /\ net.request.apiKey = WakeApiKey
          /\ net.sent = 1
    /\ (net.call = "wake" /\ net.phase = "done") =>
          net.result = (net.outcome.code = "none" /\ net.outcome.status = 200)

C18_Witness ==
    /\ net.call = "wake" /\ net.phase = "done"
    /\ net.outcome = Http(201) /\ ~net.result

\* C19: a probe of an https backend validates the certificate.
C19_ProbeValidatesTls ==
    (net.call = "probe" /\ net.scheme = "https") => net.request.verifyTls

\* C21: a call that found isWaking true on entry does nothing but wait
\* while it polls (no probe, no wake call), and when it returns success its
\* own last probe, made after the wait, was healthy.
C21_WaiterReprobes ==
    \A p \in EnsureCallers :
        Has(steps[p], "wait") =>
            /\ steps[p][1] = "wait"
            /\ pc[p] = "poll" =>
                   (steps[p] = <<"wait">> /\ probes[p] = <<>> /\ wakeRes[p] = <<>>)
            /\ (pc[p] = "done" /\ outcome[p] = "ok") =>
                   /\ Len(probes[p]) >= 1
                   /\ probes[p][Len(probes[p])]
                   /\ Count(steps[p], "probe") = Len(probes[p])

C21_Witness ==
    \E p \in EnsureCallers :
        /\ Has(steps[p], "wait")
        /\ pc[p] = "done" /\ outcome[p] = "ok"
        /\ probes[p] = <<TRUE>>

\* C22: a single ensureOllamaReady call makes at most two probes, one wake
\* call and one delay, whatever the other calls do.
C22_NoRetryLoop ==
    \A p \in EnsureCallers :
        /\ Count(steps[p], "probe") <= 2
        /\ Count(steps[p], "wake") <= 1
        /\ Count(steps[p], "delay") <= 1
        /\ Len(probes[p]) <= 2
        /\ Len(wakeRes[p]) <= 1

C22_Witness ==
    \E p, q \in EnsureCallers :
        /\ p # q
        /\ pc[p] = "done" /\ Count(steps[p], "probe") = 2
        /\ Count(steps[p], "wake") = 1 /\ Count(steps[p], "delay") = 1
        /\ pc[q] = "done" /\ Has(steps[q], "wait")

\* The shape that belongs to the endpoint of a request.
EndpointShape(rq) ==
    IF isChatEndpoint(rq) THEN "chat"
    ELSE IF isGenerateEndpoint(rq) THEN "generate" ELSE "bad_gateway"

\* C23 as stated: whatever the error code the forwarder failed with, the
\* answer has the shape that belongs to the endpoint and carries the code.
C23_ErrorEnvelopeByKind ==
    net.call = "proxy" =>
        /\ response[ProxyProc].kind = EndpointShape(req[ProxyProc])
        /\ response[ProxyProc].details = net.outcome.code

\* C23 amended: for ECONNRESET, ECONNREFUSED and ETIMEDOUT the answer has
\* the shape that belongs to the endpoint, for every other code it is the
\* generic 502 envelope; in both cases it carries the code.
C23_ErrorEnvelopeByKindAndCode ==
    net.call = "proxy" =>
        /\ response[ProxyProc].kind =
              IF net.outcome.code \in {"ECONNRESET", "ECONNREFUSED", "ETIMEDOUT"}
              THEN EndpointShape(req[ProxyProc]) ELSE "bad_gateway"
        /\ response[ProxyProc].kind = "bad_gateway" => response[ProxyProc].status = 502
        /\ response[ProxyProc].details = net.outcome.code

C23_Witness ==
    /\ net.call = "proxy" /\ net.outcome = Err("ETIMEDOUT")
    /\ req[ProxyProc].path = "/api/chat"
    /\ response[ProxyProc].kind = "chat"
    /\ Has(steps[ProxyProc], "delay")

\* No ensureOllamaReady call is in progress.
Quiescent == \A p \in Procs : ~(op[p] = "ensure" /\ InProgress(p))

\* C24: isWaking is false initially and whenever no ensureOllamaReady call
\* is in progress, and every step that changes isWaking is a step of an
\* ensureOllamaReady call resumed from a probe or from its wake call.
C24_Quiescence ==
    /\ [](Quiescent => ~isWaking)
    /\ [][isWaking' # isWaking =>
            \E p \in Procs :
                /\ op[p] = "ensure"
                /\ pc[p] \in {"probe1", "wake", "probe2"}
                /\ pc'[p] # pc[p]]_vars

C24_Witness ==
    \E p, q \in Procs :
        /\ op[p] = "ensure" /\ pc[p] = "done" /\ Has(steps[p], "set")
        /\ op[q] = "gate" /\ pc[q] = "done" /\ q \in bgWake
        /\ Quiescent /\ ~isWaking

====
